---- MODULE Spec2Model ----
(***************************************************************************)
(* GamepadMotionHelpers (GamepadMotion.hpp, revision 4): the GamepadMotion *)
(* facade, its manual bias accumulator (GyroCalibration), the sliding      *)
(* window auto-calibrator (AutoCalibration) and the gravity-convergence    *)
(* integrator (Motion).                                                    *)
(*                                                                         *)
(* Numbers.  Every `float` of the source is an IEEE-754 binary32 value and *)
(* is modelled as one: a pair <<m, e>> standing for m * 2^e, with m odd    *)
(* (or <<0, 0>> for zero) and |m| < 2^24.  FAdd, FSub, FMul, FDiv and      *)
(* FSqrt round to nearest, ties to even, exactly as the hardware does;     *)
(* they are written so that no intermediate integer leaves 31 bits.  The   *)
(* model stays inside the normal range (no overflow, no subnormals), the   *)
(* sign of zero is not kept (it is not observable through ==, <, >), and   *)
(* the build is assumed not to contract a*b+c into a fused multiply-add.   *)
(*                                                                         *)
(* libm.  cosf, acosf and exp2f are external.  The model evaluates them    *)
(* only where their value is determined: cosf(h) = 1.0f for |h| <= 2^-12   *)
(* (cos h is then within half an ulp of 1), acosf(1.0f) = 0 and            *)
(* acosf(d) > 0 for d < 1.  ProcessMotion is enumerated over the inputs    *)
(* for which Motion::Update needs nothing else (UpdateModelled).           *)
(***************************************************************************)
EXTENDS Integers, Sequences, FiniteSets, TLC

----------------------------------------------------------------------------
(* binary32 arithmetic *)

RECURSIVE BitLen(_)
BitLen(n) == IF n = 0 THEN 0 ELSE 1 + BitLen(n \div 2)

RECURSIVE Canon(_, _)
Canon(m, e) ==
    IF m = 0 THEN <<0, 0>>
    ELSE IF m % 2 # 0 THEN <<m, e>>
    ELSE Canon(m \div 2, e + 1)

Abs(n) == IF n < 0 THEN -n ELSE n

\* round to nearest, ties to even: q when r out of 2h was dropped below it
RoundUp(q, r, h) == IF r > h \/ (r = h /\ q % 2 = 1) THEN q + 1 ELSE q

\* n * 2^e with the low k bits of n rounded away
RoundAt(n, e, k) == Canon(RoundUp(n \div (2^k), n % (2^k), 2^(k - 1)), e + k)

\* n * 2^e (0 <= n < 2^31) rounded to 24 significant bits, ties to even
RoundNat(n, e) ==
    IF n < 16777216 THEN Canon(n, e) ELSE RoundAt(n, e, BitLen(n) - 24)

FNeg(a) == <<-a[1], a[2]>>

FSigned(neg, mag) == IF neg THEN FNeg(mag) ELSE mag

RoundInt(n, e) == FSigned(n < 0, RoundNat(Abs(n), e))

\* (float)n for an int n
FFromInt(n) == RoundInt(n, 0)

FSign(a) == IF a[1] < 0 THEN -1 ELSE IF a[1] > 0 THEN 1 ELSE 0

NormShift(n, e, s) == <<n * (2^s), e - s>>

\* |a| as <<M, E>> with 2^23 <= M < 2^24
Norm(a) == NormShift(Abs(a[1]), a[2], 24 - BitLen(Abs(a[1])))

\* (hi * 2^24 + lo) * 2^e, hi of k bits, rounded to 24 bits
MulShift(hi, lo, e, k) ==
    Canon(RoundUp(hi * (2^(24 - k)) + (lo \div (2^k)), lo % (2^k), 2^(k - 1)), e + k)

\* the 48-bit product built from 12-bit limbs as hi * 2^24 + lo
MulLimbs(a1, a0, b1, b0, e) ==
    LET mid == a1 * b0 + a0 * b1
        low == (mid % 4096) * 4096 + a0 * b0
        lo == low % 16777216
        hi == a1 * b1 + (mid \div 4096) + (low \div 16777216)
    IN  MulShift(hi, lo, e, BitLen(hi))

MulMag(A, B, e) ==
    IF A = 0 \/ B = 0 THEN <<0, 0>>
    ELSE IF BitLen(A) + BitLen(B) <= 30 THEN RoundNat(A * B, e)
    ELSE MulLimbs(A \div 4096, A % 4096, B \div 4096, B % 4096, e)

\* a * b
FMul(a, b) == FSigned((a[1] < 0) # (b[1] < 0), MulMag(Abs(a[1]), Abs(b[1]), a[2] + b[2]))

\* the smaller operand shifted right by D with a sticky (jammed) last bit
StickyBit(sh, lost) == IF lost /\ sh % 2 = 0 THEN sh + 1 ELSE sh
Sticky(Y8, D) == IF D >= 27 THEN 1 ELSE StickyBit(Y8 \div (2^D), Y8 % (2^D) # 0)

\* sx * X + sy * Y for normalised X >= Y, with three guard bits
AddOrdered(sx, X, sy, Y) ==
    RoundInt(sx * (X[1] * 8) + sy * Sticky(Y[1] * 8, X[2] - Y[2]), X[2] - 3)

AddNorm(a, b, na, nb) ==
    IF na[2] > nb[2] \/ (na[2] = nb[2] /\ na[1] >= nb[1])
    THEN AddOrdered(FSign(a), na, FSign(b), nb)
    ELSE AddOrdered(FSign(b), nb, FSign(a), na)

\* hiE + loE, the exponent of hiE not below that of loE, both non-zero:
\* exact when the aligned sum fits
AddAligned(hiE, loE) ==
    IF BitLen(Abs(hiE[1])) + (hiE[2] - loE[2]) <= 29
    THEN RoundInt(hiE[1] * (2^(hiE[2] - loE[2])) + loE[1], loE[2])
    ELSE AddNorm(hiE, loE, Norm(hiE), Norm(loE))

\* a + b
FAdd(a, b) ==
    IF a[1] = 0 THEN b
    ELSE IF b[1] = 0 THEN a
    ELSE AddAligned(IF a[2] >= b[2] THEN a ELSE b, IF a[2] >= b[2] THEN b ELSE a)

FSub(a, b) == FAdd(a, FNeg(b))

FLt(a, b) == FSign(FSub(a, b)) < 0
FLe(a, b) == FSign(FSub(a, b)) <= 0
FGt(a, b) == FLt(b, a)
FGe(a, b) == FLe(b, a)

FAbs(a) == <<Abs(a[1]), a[2]>>

\* long division, 6 quotient bits a step and 2 in the last one
RECURSIVE DivDigits(_, _, _, _, _)
DivDigits(q, r, B, i, e) ==
    IF i = 4
    THEN RoundNat((q * 4 + ((r * 4) \div B)) * 2 + (IF (r * 4) % B # 0 THEN 1 ELSE 0), e)
    ELSE DivDigits(q * 64 + ((r * 64) \div B), (r * 64) % B, B, i + 1, e)

\* 27 quotient bits, the remainder made sticky
DivNorm(na, nb) == DivDigits(na[1] \div nb[1], na[1] % nb[1], nb[1], 0, na[2] - nb[2] - 27)

DivMag(A, B, a, b) ==
    IF A = 0 THEN <<0, 0>>
    ELSE IF A % B = 0 THEN Canon(A \div B, a[2] - b[2])
    ELSE DivNorm(Norm(a), Norm(b))

\* a / b (b # 0)
FDiv(a, b) == FSigned((a[1] < 0) # (b[1] < 0), DivMag(Abs(a[1]), Abs(b[1]), a, b))

\* sqrtf: 13 bit pairs of the 26-bit radicand, then 13 zero pairs
RECURSIVE SqrtBits(_, _, _, _)
SqrtBits(rad, i, root, rem) ==
    IF i = 26 THEN <<root, rem>>
    ELSE LET pair == IF i < 13 THEN (rad \div (4^(12 - i))) % 4 ELSE 0
             r4 == rem * 4 + pair
             t == root * 4 + 1
         IN  IF r4 >= t THEN SqrtBits(rad, i + 1, root * 2 + 1, r4 - t)
             ELSE SqrtBits(rad, i + 1, root * 2, r4)

SqrtRound(res, E) ==
    RoundNat(res[1] * 2 + (IF res[2] # 0 THEN 1 ELSE 0), (E \div 2) - 14)

SqrtNorm(n) ==
    SqrtRound(SqrtBits(IF n[2] % 2 # 0 THEN n[1] * 2 ELSE n[1], 0, 0, 0),
              IF n[2] % 2 # 0 THEN n[2] - 1 ELSE n[2])

FSqrt(a) == IF a[1] = 0 THEN <<0, 0>> ELSE SqrtNorm(Norm(a))

Zero == <<0, 0>>
One == <<1, 0>>
Half == <<1, -1>>
\* (float)M_PI
PiF == <<13176795, -22>>
F180 == <<45, 2>>

\* cosf(h) where libm's value is determined: 1.0f for |h| <= 2^-12
CosfModelled(h) == FLe(FAbs(h), <<1, -12>>)
\* a float the model does not evaluate (no operation reads it)
NotModelled == <<0, -1>>
Cosf(h) == IF CosfModelled(h) THEN One ELSE NotModelled

----------------------------------------------------------------------------
(* Vec and Quat *)

Vec(inX, inY, inZ) == [x |-> inX, y |-> inY, z |-> inZ]

VecZero == Vec(Zero, Zero, Zero)

Quat(inW, inX, inY, inZ) == [w |-> inW, x |-> inX, y |-> inY, z |-> inZ]

QuatIdentity == Quat(One, Zero, Zero, Zero)

\* Quat::operator*=
QuatMul(l, r) ==
    Quat(FSub(FSub(FSub(FMul(l.w, r.w), FMul(l.x, r.x)), FMul(l.y, r.y)), FMul(l.z, r.z)),
         FSub(FAdd(FAdd(FMul(l.w, r.x), FMul(l.x, r.w)), FMul(l.y, r.z)), FMul(l.z, r.y)),
         FAdd(FAdd(FSub(FMul(l.w, r.y), FMul(l.x, r.z)), FMul(l.y, r.w)), FMul(l.z, r.x)),
         FAdd(FSub(FAdd(FMul(l.w, r.z), FMul(l.x, r.y)), FMul(l.y, r.x)), FMul(l.z, r.w)))

\* Quat::Normalize: rescales x, y, z to length sqrt(1 - w*w); identity when
\* either length is not positive
QuatRescale(q, length, targetLength) ==
    IF FLe(length, Zero) \/ FLe(targetLength, Zero)
    THEN QuatIdentity
    ELSE LET fixFactor == FDiv(FSqrt(targetLength), length)
         IN  Quat(q.w, FMul(q.x, fixFactor), FMul(q.y, fixFactor), FMul(q.z, fixFactor))

QuatNormalize(q) ==
    QuatRescale(q, FSqrt(FAdd(FAdd(FMul(q.x, q.x), FMul(q.y, q.y)), FMul(q.z, q.z))),
                FSub(One, FMul(q.w, q.w)))

QuatInverse(q) == Quat(q.w, FNeg(q.x), FNeg(q.y), FNeg(q.z))

\* AngleAxis, given cosf(inAngle * 0.5f)
AngleAxisCos(cosHalf, inX, inY, inZ) == QuatNormalize(Quat(cosHalf, inX, inY, inZ))

AngleAxis(inAngle, inX, inY, inZ) ==
    AngleAxisCos(Cosf(FMul(inAngle, Half)), inX, inY, inZ)

VecLength(v) == FSqrt(FAdd(FAdd(FMul(v.x, v.x), FMul(v.y, v.y)), FMul(v.z, v.z)))

VecAdd(l, r) == Vec(FAdd(l.x, r.x), FAdd(l.y, r.y), FAdd(l.z, r.z))
VecSub(l, r) == Vec(FSub(l.x, r.x), FSub(l.y, r.y), FSub(l.z, r.z))
VecScale(v, f) == Vec(FMul(v.x, f), FMul(v.y, f), FMul(v.z, f))
VecNeg(v) == Vec(FNeg(v.x), FNeg(v.y), FNeg(v.z))

\* Vec::Normalize: x, y, z *= 1.0f / length unless the length is 0
VecRescale(v, length) == IF length = Zero THEN v ELSE VecScale(v, FDiv(One, length))

VecNormalized(v) == VecRescale(v, VecLength(v))

VecDot(l, r) == FAdd(FAdd(FMul(l.x, r.x), FMul(l.y, r.y)), FMul(l.z, r.z))

VecCross(l, r) ==
    Vec(FSub(FMul(l.y, r.z), FMul(l.z, r.y)),
        FSub(FMul(l.z, r.x), FMul(l.x, r.z)),
        FSub(FMul(l.x, r.y), FMul(l.y, r.x)))

\* Vec::operator*=(const Quat&): rhs * (0, x, y, z) * rhs.Inverse()
QuatVec(temp) == Vec(temp.x, temp.y, temp.z)

VecRotate(v, q) == QuatVec(QuatMul(QuatMul(q, Quat(Zero, v.x, v.y, v.z)), QuatInverse(q)))

----------------------------------------------------------------------------
(* Motion *)

NumGravDirectionSamples == 10

\* 0.05f
SteadyGravityThreshold == <<13421773, -28>>

DownVec == Vec(Zero, FNeg(One), Zero)

\* the member initialisers and Motion::Motion(), which calls Reset()
MotionInit ==
    [Quaternion |-> QuatIdentity,
     Accel |-> VecZero,
     Grav |-> VecZero,
     GravDirectionSamples |-> [i \in 0..(NumGravDirectionSamples - 1) |-> VecZero],
     LastGravityIdx |-> 9,
     NumGravDirectionSamplesCounted |-> 0,
     TimeCorrecting |-> Zero]

\* Motion::Reset leaves the ring, its cursor and TimeCorrecting as they are
MotionReset(M) ==
    [M EXCEPT !.Quaternion = QuatIdentity,
              !.Accel = VecZero,
              !.Grav = VecZero,
              !.NumGravDirectionSamplesCounted = 0]

\* the bounding-box loop of Motion::Update, idx = 1 .. numGravSamples - 1, as
\* written: the third minimum is guarded by the y comparison
RECURSIVE GravityBox(_, _, _, _, _, _)
GravityBox(samples, lastIdx, idx, numGravSamples, gravityMin, gravityMax) ==
    IF idx >= numGravSamples THEN [min |-> gravityMin, max |-> gravityMax]
    ELSE LET thisSample == samples[(lastIdx + idx) % NumGravDirectionSamples]
             maxX == IF FGt(thisSample.x, gravityMax.x) THEN thisSample.x ELSE gravityMax.x
             maxY == IF FGt(thisSample.y, gravityMax.y) THEN thisSample.y ELSE gravityMax.y
             maxZ == IF FGt(thisSample.z, gravityMax.z) THEN thisSample.z ELSE gravityMax.z
             minX == IF FLt(thisSample.x, gravityMin.x) THEN thisSample.x ELSE gravityMin.x
             minY == IF FLt(thisSample.y, gravityMin.y) THEN thisSample.y ELSE gravityMin.y
             minZ == IF FLt(thisSample.y, minY) THEN thisSample.z ELSE gravityMin.z
         IN  GravityBox(samples, lastIdx, idx + 1, numGravSamples,
                        Vec(minX, minY, minZ), Vec(maxX, maxY, maxZ))

\* Motion::Update up to the rotation of the orientation by the gyro:
\* [halfAngle (the argument of cosf), rotated]
UpdateRotation(M, inGyro, deltaTime) ==
    LET axisLength == VecLength(inGyro)
        angle == FMul(FDiv(FMul(axisLength, PiF), F180), deltaTime)
    IN  [halfAngle |-> FMul(angle, Half),
         rotated |-> QuatMul(M.Quaternion, AngleAxis(angle, inGyro.x, inGyro.y, inGyro.z))]

\* the steadiness test and the direction of the correction, given the
\* bounding box of the gravity samples
UpdateBox(r, accel, lastIdx, samples, counted, box) ==
    LET gravityBoxSize == VecSub(box.max, box.min)
        steady == /\ FLe(gravityBoxSize.x, SteadyGravityThreshold)
                  /\ FLe(gravityBoxSize.y, SteadyGravityThreshold)
                  /\ FLe(gravityBoxSize.z, SteadyGravityThreshold)
        centre == VecAdd(box.min, VecScale(gravityBoxSize, Half))
        gravityDirection == VecNeg(VecNormalized(centre))
        \* errorAngle = acosf(dot) * 180 / pi is positive exactly when dot < 1
        errorAnglePositive == FLt(VecDot(DownVec, gravityDirection), One)
        flattened == VecNormalized(VecCross(gravityDirection, DownVec))
    IN  [halfAngle |-> r.halfAngle, rotated |-> r.rotated,
         accelMagnitude |-> VecLength(accel), lastIdx |-> lastIdx, samples |-> samples,
         counted |-> counted, box |-> box, steady |-> steady,
         errorAnglePositive |-> errorAnglePositive, flattened |-> flattened]

\* the new gravity sample absoluteAccel stored in the ring and boxed with
\* the samples before it
UpdateSample(M, r, accel, absoluteAccel) ==
    LET lastIdx == (M.LastGravityIdx + NumGravDirectionSamples - 1) % NumGravDirectionSamples
        samples == [M.GravDirectionSamples EXCEPT ![lastIdx] = absoluteAccel]
        counted == M.NumGravDirectionSamplesCounted + 1
        numGravSamples == IF counted < NumGravDirectionSamples THEN counted
                          ELSE NumGravDirectionSamples
    IN  UpdateBox(r, accel, lastIdx, samples, counted,
                  GravityBox(samples, lastIdx, 1, numGravSamples, absoluteAccel,
                             absoluteAccel))

UpdateRotated(M, r, accel) == UpdateSample(M, r, accel, VecRotate(accel, r.rotated))

\* the locals of Motion::Update up to the steadiness test
UpdateLocals(M, inGyro, accel, deltaTime) ==
    UpdateRotated(M, UpdateRotation(M, inGyro, deltaTime), accel)

UpdateModelledLocals(u) ==
    /\ CosfModelled(u.halfAngle)
    /\ (FGt(u.accelMagnitude, Zero) /\ u.steady /\ u.errorAnglePositive)
          => u.flattened = VecZero

\* the inputs for which Motion::Update needs no libm value the model lacks:
\* an increment below float resolution, and a correction (if any) about a
\* degenerate axis, where Quat::Normalize returns the identity for any angle
UpdateModelled(M, inGyro, accel, deltaTime) ==
    UpdateModelledLocals(UpdateLocals(M, inGyro, accel, deltaTime))

\* the state Motion::Update leaves, given the corrected orientation and the
\* gravity vector
UpdateState(M, accel, deltaTime, u, corrected, grav) ==
    IF FGt(u.accelMagnitude, Zero)
    THEN [Quaternion |-> QuatNormalize(corrected),
          Accel |-> VecAdd(accel, grav),
          Grav |-> grav,
          GravDirectionSamples |-> u.samples,
          LastGravityIdx |-> u.lastIdx,
          NumGravDirectionSamplesCounted |-> u.counted,
          TimeCorrecting |-> IF u.steady /\ u.errorAnglePositive
                             THEN FAdd(M.TimeCorrecting, deltaTime)
                             ELSE Zero]
    ELSE [M EXCEPT !.Quaternion = QuatNormalize(u.rotated),
                   !.Accel = VecZero,
                   !.TimeCorrecting = Zero]

\* Grav = Vec(0, -gravityLength, 0) * Quaternion.Inverse()
UpdateGravity(M, accel, gravityLength, deltaTime, u, corrected) ==
    UpdateState(M, accel, deltaTime, u, corrected,
                VecRotate(Vec(Zero, FNeg(gravityLength), Zero), QuatInverse(corrected)))

\* the correction towards measured gravity; confidentSmoothCorrect (acosf,
\* exp2f) is read only as the angle of this rotation
UpdateCorrected(u) ==
    IF u.steady /\ u.errorAnglePositive
    THEN QuatMul(AngleAxisCos(NotModelled, u.flattened.x, u.flattened.y, u.flattened.z),
                 u.rotated)
    ELSE u.rotated

UpdateCorrection(M, accel, gravityLength, deltaTime, u) ==
    UpdateGravity(M, accel, gravityLength, deltaTime, u, UpdateCorrected(u))

\* Motion::Update taking the measured magnitude for the length of gravity
MotionUpdateMeasuredGravity(M, inGyro, accel, gravityLength, deltaTime) ==
    UpdateCorrection(M, accel, VecLength(accel), deltaTime,
                     UpdateLocals(M, inGyro, accel, deltaTime))

\* Motion::Update
MotionUpdate(M, inGyro, accel, gravityLength, deltaTime) ==
    UpdateCorrection(M, accel, gravityLength, deltaTime,
                     UpdateLocals(M, inGyro, accel, deltaTime))

----------------------------------------------------------------------------
(* SensorMinMaxWindow and AutoCalibration *)

NumWindows == 2
MinAutoWindowSamples == 5
MinAutoWindowTime == One
MaxRecalibrateThreshold == <<3, -1>>
MinClimbRate == Half
RecalibrateClimbRate == Half
RecalibrateDrop == <<1, -2>>
\* the initial value of the six MinDelta floors
MinDeltaInit == <<5, 1>>

\* SensorMinMaxWindow(), then AutoCalibration() sets TimeSampled of window
\* Idx to MinAutoWindowTime * (-Idx / (float)NumWindows)
WindowInit(Idx) ==
    [MinGyro |-> VecZero, MaxGyro |-> VecZero, MinAccel |-> VecZero, MaxAccel |-> VecZero,
     NumSamples |-> 0,
     TimeSampled |-> FMul(MinAutoWindowTime, FDiv(FFromInt(-Idx), FFromInt(NumWindows)))]

WindowReset(W, remainder) == [W EXCEPT !.NumSamples = 0, !.TimeSampled = remainder]

\* one axis of SensorMinMaxWindow::AddSample: if (in > max) max = in;
\* else if (in < min) min = in
AxisMax(in, mn, mx) == IF FGt(in, mx) THEN in ELSE mx
AxisMin(in, mn, mx) == IF FGt(in, mx) THEN mn ELSE IF FLt(in, mn) THEN in ELSE mn

WindowAddSample(W, inGyro, inAccel, deltaTime) ==
    IF W.NumSamples = 0
    THEN [MinGyro |-> inGyro, MaxGyro |-> inGyro, MinAccel |-> inAccel, MaxAccel |-> inAccel,
          NumSamples |-> 1, TimeSampled |-> FAdd(W.TimeSampled, deltaTime)]
    ELSE [MinGyro |-> Vec(AxisMin(inGyro.x, W.MinGyro.x, W.MaxGyro.x),
                          AxisMin(inGyro.y, W.MinGyro.y, W.MaxGyro.y),
                          AxisMin(inGyro.z, W.MinGyro.z, W.MaxGyro.z)),
          MaxGyro |-> Vec(AxisMax(inGyro.x, W.MinGyro.x, W.MaxGyro.x),
                          AxisMax(inGyro.y, W.MinGyro.y, W.MaxGyro.y),
                          AxisMax(inGyro.z, W.MinGyro.z, W.MaxGyro.z)),
          MinAccel |-> Vec(AxisMin(inAccel.x, W.MinAccel.x, W.MaxAccel.x),
                           AxisMin(inAccel.y, W.MinAccel.y, W.MaxAccel.y),
                           AxisMin(inAccel.z, W.MinAccel.z, W.MaxAccel.z)),
          MaxAccel |-> Vec(AxisMax(inAccel.x, W.MinAccel.x, W.MaxAccel.x),
                           AxisMax(inAccel.y, W.MinAccel.y, W.MaxAccel.y),
                           AxisMax(inAccel.z, W.MinAccel.z, W.MaxAccel.z)),
          NumSamples |-> W.NumSamples + 1,
          TimeSampled |-> FAdd(W.TimeSampled, deltaTime)]

GetMedianGyro(W) == VecScale(VecAdd(W.MaxGyro, W.MinGyro), Half)

\* the member initialisers and AutoCalibration::AutoCalibration()
AutoCalibrationInit ==
    [MinMaxWindows |-> [Idx \in 0..(NumWindows - 1) |-> WindowInit(Idx)],
     MinDeltaGyroX |-> MinDeltaInit, MinDeltaGyroY |-> MinDeltaInit,
     MinDeltaGyroZ |-> MinDeltaInit, MinDeltaAccelX |-> MinDeltaInit,
     MinDeltaAccelY |-> MinDeltaInit, MinDeltaAccelZ |-> MinDeltaInit,
     RecalibrateThreshold |-> One]

FMin(a, b) == IF FLt(a, b) THEN a ELSE b

\* the test that guards "Recalibrating...": the gyro X span against the three
\* gyro floors and the accel X span against the three accel floors
FireCondition(A, gyroDelta, accelDelta) ==
    /\ FLt(gyroDelta.x, FMul(A.MinDeltaGyroX, A.RecalibrateThreshold))
    /\ FLt(gyroDelta.x, FMul(A.MinDeltaGyroY, A.RecalibrateThreshold))
    /\ FLt(gyroDelta.x, FMul(A.MinDeltaGyroZ, A.RecalibrateThreshold))
    /\ FLt(accelDelta.x, FMul(A.MinDeltaAccelX, A.RecalibrateThreshold))
    /\ FLt(accelDelta.x, FMul(A.MinDeltaAccelY, A.RecalibrateThreshold))
    /\ FLt(accelDelta.x, FMul(A.MinDeltaAccelZ, A.RecalibrateThreshold))

\* RecalibrateThreshold -= RecalibrateDrop without the floor
DropThresholdNoFloor(t) == FSub(t, RecalibrateDrop)

\* RecalibrateThreshold -= RecalibrateDrop, floored at 1
DropThreshold(t) ==
    LET d == FSub(t, RecalibrateDrop) IN IF FLt(d, One) THEN One ELSE d

\* RecalibrateThreshold += RecalibrateClimbRate * deltaTime, capped
ClimbThreshold(t, deltaTime) ==
    LET c == FAdd(t, FMul(RecalibrateClimbRate, deltaTime))
    IN  IF FGt(c, MaxRecalibrateThreshold) THEN MaxRecalibrateThreshold ELSE c

\* GamepadMotion() hands the calibrator &GyroCalibration, so the
\* "CalibrationData != nullptr" test passes in every call
CalibrationDataBound == TRUE

\* a firing window writing the top of its gyro range instead of the middle
FireWriteMax(W) ==
    [X |-> W.MaxGyro.x, Y |-> W.MaxGyro.y, Z |-> W.MaxGyro.z,
     AccelMagnitude |-> FMul(VecLength(VecAdd(W.MaxAccel, W.MinAccel)), Half),
     NumSamples |-> 1]

\* what a firing window writes through CalibrationData
FireWrite(W) ==
    LET calibratedGyro == GetMedianGyro(W)
    IN  [X |-> calibratedGyro.x, Y |-> calibratedGyro.y, Z |-> calibratedGyro.z,
         AccelMagnitude |-> FMul(VecLength(VecAdd(W.MaxAccel, W.MinAccel)), Half),
         NumSamples |-> 1]

\* the floors lowered to the spans of a mature window
LowerFloors(A, gyroDelta, accelDelta) ==
    [A EXCEPT !.MinDeltaGyroX = FMin(gyroDelta.x, A.MinDeltaGyroX),
              !.MinDeltaGyroY = FMin(gyroDelta.y, A.MinDeltaGyroY),
              !.MinDeltaGyroZ = FMin(gyroDelta.z, A.MinDeltaGyroZ),
              !.MinDeltaAccelX = FMin(accelDelta.x, A.MinDeltaAccelX),
              !.MinDeltaAccelY = FMin(accelDelta.y, A.MinDeltaAccelY),
              !.MinDeltaAccelZ = FMin(accelDelta.z, A.MinDeltaAccelZ)]

\* a mature window after the fire test: the threshold drop, the write
\* through CalibrationData and the reset of the window.  fires keeps, for
\* each window that met the fire condition, what the condition read
WindowFire(s, Idx, thisSample, remainder, gyroDelta, accelDelta, A2, fire) ==
    [A |-> [A2 EXCEPT !.RecalibrateThreshold = IF fire THEN DropThreshold(@) ELSE @,
                      !.MinMaxWindows[Idx] = WindowReset(thisSample, remainder)],
     cal |-> IF fire /\ CalibrationDataBound THEN FireWrite(thisSample) ELSE s.cal,
     calibrated |-> s.calibrated \/ (fire /\ CalibrationDataBound),
     fires |-> IF fire
               THEN Append(s.fires,
                           [Idx |-> Idx, window |-> thisSample,
                            gyroDelta |-> gyroDelta, accelDelta |-> accelDelta,
                            MinDeltaGyro |-> Vec(A2.MinDeltaGyroX, A2.MinDeltaGyroY,
                                                 A2.MinDeltaGyroZ),
                            MinDeltaAccel |-> Vec(A2.MinDeltaAccelX, A2.MinDeltaAccelY,
                                                  A2.MinDeltaAccelZ),
                            RecalibrateThreshold |-> A2.RecalibrateThreshold])
               ELSE s.fires]

WindowFloors(s, Idx, thisSample, remainder, gyroDelta, accelDelta, A2) ==
    WindowFire(s, Idx, thisSample, remainder, gyroDelta, accelDelta, A2,
               FireCondition(A2, gyroDelta, accelDelta))

\* a mature window: its spans against the floors
WindowMature(s, Idx, thisSample, remainder, gyroDelta, accelDelta) ==
    WindowFloors(s, Idx, thisSample, remainder, gyroDelta, accelDelta,
                 LowerFloors(s.A, gyroDelta, accelDelta))

\* the time the window restarts with, from the other window's age
WindowRemainder(otherSample, deltaTime) ==
    IF FGe(FAdd(otherSample.TimeSampled, deltaTime), MinAutoWindowTime)
    THEN FDiv(MinAutoWindowTime, FFromInt(NumWindows))
    ELSE FSub(otherSample.TimeSampled, FDiv(MinAutoWindowTime, FFromInt(NumWindows)))

WindowSampled(s, Idx, deltaTime, thisSample, otherSample) ==
    IF thisSample.NumSamples < MinAutoWindowSamples
       \/ FLt(thisSample.TimeSampled, MinAutoWindowTime)
    THEN [s EXCEPT !.A.MinMaxWindows[Idx] = thisSample]
    ELSE WindowMature(s, Idx, thisSample, WindowRemainder(otherSample, deltaTime),
                      VecSub(thisSample.MaxGyro, thisSample.MinGyro),
                      VecSub(thisSample.MaxAccel, thisSample.MinAccel))

\* the body of the window loop of AutoCalibration::AddSample for window Idx.
\* s = [A, cal, calibrated, fires]
WindowStep(s, Idx, inGyro, inAccel, deltaTime) ==
    WindowSampled(s, Idx, deltaTime,
                  WindowAddSample(s.A.MinMaxWindows[Idx], inGyro, inAccel, deltaTime),
                  s.A.MinMaxWindows[(Idx + NumWindows - 1) % NumWindows])

RECURSIVE WindowLoop(_, _, _, _, _)
WindowLoop(s, Idx, inGyro, inAccel, deltaTime) ==
    IF Idx >= NumWindows THEN s
    ELSE WindowLoop(WindowStep(s, Idx, inGyro, inAccel, deltaTime), Idx + 1,
                    inGyro, inAccel, deltaTime)

\* AutoCalibration::AddSample on calibrator A and the GyroCalibration cal it
\* points to: [A, cal, calibrated (the return value), fires]
AutoAddSample(A, cal, inGyro, inAccel, deltaTime) ==
    LET climb == FMul(MinClimbRate, deltaTime)
        A0 == [A EXCEPT !.MinDeltaGyroX = FAdd(@, climb),
                        !.MinDeltaGyroY = FAdd(@, climb),
                        !.MinDeltaGyroZ = FAdd(@, climb),
                        !.MinDeltaAccelX = FAdd(@, climb),
                        !.MinDeltaAccelY = FAdd(@, climb),
                        !.MinDeltaAccelZ = FAdd(@, climb),
                        !.RecalibrateThreshold = ClimbThreshold(@, deltaTime)]
    IN  WindowLoop([A |-> A0, cal |-> cal, calibrated |-> FALSE, fires |-> << >>],
                   0, inGyro, inAccel, deltaTime)

----------------------------------------------------------------------------
(* GamepadMotion *)

VARIABLES
    GyroCalibration,         \* [X, Y, Z, AccelMagnitude, NumSamples]
    Gyro,                    \* the calibrated gyro of the last tick
    RawAccel,                \* the accelerometer of the last tick
    Motion,
    AutoCalibration,
    CurrentCalibrationMode,  \* "Basic" or "Auto"
    IsCalibrating,
    obs,                     \* history: the last call, its arguments, what it read
    pushed,                  \* history: the raw gyro samples summed in GyroCalibration
    ticks,                   \* history: calls of ProcessMotion / AddSample so far
    calls,                   \* history: calls of any operation so far
    recalibrations,          \* history: AddSample calls that returned true so far
    steady,                  \* the inputs of a constant-input run
    gravity                  \* history: the world-frame samples stored since the
                             \* last reset of Motion, newest first, 10 at most

vars == <<GyroCalibration, Gyro, RawAccel, Motion, AutoCalibration,
          CurrentCalibrationMode, IsCalibrating, obs, pushed, ticks, calls,
          recalibrations, steady, gravity>>

\* GyroCalibration = {}
GyroCalibrationZero ==
    [X |-> Zero, Y |-> Zero, Z |-> Zero, AccelMagnitude |-> Zero, NumSamples |-> 0]

\* GamepadMotion::PushSensorSamples
PushSensorSamples(cal, gyro, accelMagnitude) ==
    [X |-> FAdd(cal.X, gyro.x),
     Y |-> FAdd(cal.Y, gyro.y),
     Z |-> FAdd(cal.Z, gyro.z),
     AccelMagnitude |-> FAdd(cal.AccelMagnitude, accelMagnitude),
     NumSamples |-> cal.NumSamples + 1]

\* GetCalibratedSensor with the early return taken for a count of 0 only
GetCalibratedSensorZeroOnly(cal) ==
    IF cal.NumSamples = 0
    THEN [offset |-> VecZero, accelMagnitude |-> Zero]
    ELSE LET inverseSamples == FDiv(One, FFromInt(cal.NumSamples))
         IN  [offset |-> Vec(FMul(cal.X, inverseSamples),
                             FMul(cal.Y, inverseSamples),
                             FMul(cal.Z, inverseSamples)),
              accelMagnitude |-> FMul(cal.AccelMagnitude, inverseSamples)]

\* GamepadMotion::GetCalibratedSensor: [offset, accelMagnitude]
GetCalibratedSensor(cal) ==
    IF cal.NumSamples <= 0
    THEN [offset |-> VecZero, accelMagnitude |-> Zero]
    ELSE LET inverseSamples == FDiv(One, FFromInt(cal.NumSamples))
         IN  [offset |-> Vec(FMul(cal.X, inverseSamples),
                             FMul(cal.Y, inverseSamples),
                             FMul(cal.Z, inverseSamples)),
              accelMagnitude |-> FMul(cal.AccelMagnitude, inverseSamples)]

\* GamepadMotion::GetCalibrationOffset
GetCalibrationOffset(cal) == GetCalibratedSensor(cal).offset

\* SetCalibrationOffset storing the offset itself instead of offset * weight
SetOffsetUnweighted(cal, offset, weight) ==
    [X |-> offset.x,
     Y |-> offset.y,
     Z |-> offset.z,
     AccelMagnitude |->
         IF cal.NumSamples > 1
         THEN FMul(cal.AccelMagnitude,
                   FDiv(FFromInt(weight), FFromInt(cal.NumSamples)))
         ELSE FFromInt(weight),
     NumSamples |-> weight]

\* GamepadMotion::SetCalibrationOffset
SetOffset(cal, offset, weight) ==
    [X |-> FMul(offset.x, FFromInt(weight)),
     Y |-> FMul(offset.y, FFromInt(weight)),
     Z |-> FMul(offset.z, FFromInt(weight)),
     AccelMagnitude |->
         IF cal.NumSamples > 1
         THEN FMul(cal.AccelMagnitude,
                   FDiv(FFromInt(weight), FFromInt(cal.NumSamples)))
         ELSE FFromInt(weight),
     NumSamples |-> weight]

\* the calibration switch of ProcessMotion without the IsCalibrating test
CalibrationStepAlwaysPush(mode, calibrating, A, cal, gyro, accel, deltaTime) ==
    IF mode = "Basic"
    THEN [A |-> A,
          cal |-> PushSensorSamples(cal, gyro, VecLength(accel)),
          calibrated |-> FALSE, fires |-> << >>]
    ELSE AutoAddSample(A, cal, gyro, accel, deltaTime)

\* the calibration switch of ProcessMotion: [A, cal, calibrated, fires]
CalibrationStep(mode, calibrating, A, cal, gyro, accel, deltaTime) ==
    IF mode = "Basic"
    THEN [A |-> A,
          cal |-> IF calibrating THEN PushSensorSamples(cal, gyro, VecLength(accel))
                  ELSE cal,
          calibrated |-> FALSE, fires |-> << >>]
    ELSE AutoAddSample(A, cal, gyro, accel, deltaTime)

\* the observation of a call that has no arguments.  A tick also keeps what
\* the accumulator and RecalibrateThreshold were when it was called
NoObs(op) ==
    [op |-> op, gyro |-> VecZero, accel |-> VecZero, dt |-> Zero, weight |-> 0,
     calibrated |-> FALSE, fires |-> << >>,
     before |-> GyroCalibrationZero, threshold |-> One]

NoSamples == [valid |-> TRUE, samples |-> << >>]

\* GamepadMotion::GamepadMotion()
Fresh ==
    /\ GyroCalibration = GyroCalibrationZero
    /\ Gyro = VecZero
    /\ RawAccel = VecZero
    /\ Motion = MotionInit
    /\ AutoCalibration = AutoCalibrationInit
    /\ CurrentCalibrationMode = "Basic"
    /\ IsCalibrating = FALSE

NoSteady == [gyro |-> VecZero, accel |-> VecZero, hz |-> 1]

Init ==
    /\ Fresh
    /\ obs = NoObs("GamepadMotion")
    /\ pushed = NoSamples
    /\ ticks = 0
    /\ calls = 0
    /\ recalibrations = 0
    /\ steady = NoSteady
    /\ gravity = << >>

\* GamepadMotion::Reset
Reset ==
    /\ GyroCalibration' = GyroCalibrationZero
    /\ Gyro' = VecZero
    /\ RawAccel' = VecZero
    /\ Motion' = MotionReset(Motion)
    /\ calls' = calls + 1
    /\ obs' = NoObs("Reset")
    /\ pushed' = NoSamples
    /\ gravity' = << >>
    /\ UNCHANGED <<AutoCalibration, CurrentCalibrationMode, IsCalibrating, ticks, recalibrations,
                   steady>>

\* the NumGravDirectionSamples newest entries of a history, newest first
Newest(h) ==
    SubSeq(h, 1, IF Len(h) < NumGravDirectionSamples THEN Len(h)
                 ELSE NumGravDirectionSamples)

\* ProcessMotion after the calibration switch c = [A, cal, calibrated,
\* fires]: Motion.Update with the calibrated gyro
ProcessCalibrated(gyro, accel, deltaTime, c, accelMagnitude, calibratedGyro) ==
    /\ UpdateModelled(Motion, calibratedGyro, accel, deltaTime)
    /\ GyroCalibration' = c.cal
    /\ AutoCalibration' = c.A
    /\ Motion' = MotionUpdate(Motion, calibratedGyro, accel, accelMagnitude, deltaTime)
    /\ Gyro' = calibratedGyro
    /\ RawAccel' = accel
    /\ calls' = calls + 1
    /\ obs' = [NoObs("ProcessMotion") EXCEPT !.gyro = gyro, !.accel = accel,
                   !.dt = deltaTime, !.calibrated = c.calibrated, !.fires = c.fires,
                   !.before = GyroCalibration,
                   !.threshold = AutoCalibration.RecalibrateThreshold]
    /\ pushed' = IF CurrentCalibrationMode = "Basic"
                 THEN IF IsCalibrating
                      THEN [pushed EXCEPT !.samples = Append(@, gyro)]
                      ELSE pushed
                 ELSE IF c.calibrated THEN [pushed EXCEPT !.valid = FALSE]
                      ELSE pushed
    /\ ticks' = ticks + 1
    /\ recalibrations' = recalibrations + (IF c.calibrated THEN 1 ELSE 0)
    /\ gravity' = IF FGt(VecLength(accel), Zero)
                  THEN Newest(<<VecRotate(accel, UpdateRotation(Motion, calibratedGyro,
                                                                deltaTime).rotated)>>
                              \o gravity)
                  ELSE gravity
    /\ UNCHANGED <<CurrentCalibrationMode, IsCalibrating, steady>>

\* GamepadMotion::ProcessMotion
ProcessMotion(gyro, accel, deltaTime) ==
    LET c == CalibrationStep(CurrentCalibrationMode, IsCalibrating, AutoCalibration,
                             GyroCalibration, gyro, accel, deltaTime)
        sensor == GetCalibratedSensor(c.cal)
    IN  ProcessCalibrated(gyro, accel, deltaTime, c, sensor.accelMagnitude,
                          VecSub(gyro, sensor.offset))

\* GamepadMotion::StartContinuousCalibration
StartContinuousCalibration ==
    /\ IsCalibrating' = TRUE
    /\ calls' = calls + 1
    /\ obs' = NoObs("StartContinuousCalibration")
    /\ UNCHANGED <<GyroCalibration, Gyro, RawAccel, Motion, AutoCalibration,
                   CurrentCalibrationMode, pushed, ticks, recalibrations,
                   steady, gravity>>

\* GamepadMotion::PauseContinuousCalibration
PauseContinuousCalibration ==
    /\ IsCalibrating' = FALSE
    /\ calls' = calls + 1
    /\ obs' = NoObs("PauseContinuousCalibration")
    /\ UNCHANGED <<GyroCalibration, Gyro, RawAccel, Motion, AutoCalibration,
                   CurrentCalibrationMode, pushed, ticks, recalibrations,
                   steady, gravity>>

\* GamepadMotion::ResetContinuousCalibration
ResetContinuousCalibration ==
    /\ GyroCalibration' = GyroCalibrationZero
    /\ calls' = calls + 1
    /\ obs' = NoObs("ResetContinuousCalibration")
    /\ pushed' = NoSamples
    /\ UNCHANGED <<Gyro, RawAccel, Motion, AutoCalibration, CurrentCalibrationMode,
                   IsCalibrating, ticks, recalibrations,
                   steady, gravity>>

\* GamepadMotion::SetCalibrationOffset
SetCalibrationOffset(offset, weight) ==
    /\ GyroCalibration' = SetOffset(GyroCalibration, offset, weight)
    /\ calls' = calls + 1
    /\ obs' = [NoObs("SetCalibrationOffset") EXCEPT !.gyro = offset, !.weight = weight]
    /\ pushed' = [pushed EXCEPT !.valid = FALSE]
    /\ UNCHANGED <<Gyro, RawAccel, Motion, AutoCalibration, CurrentCalibrationMode,
                   IsCalibrating, ticks, recalibrations,
                   steady, gravity>>

\* GamepadMotion::SetCalibrationMode
SetCalibrationMode(calibrationMode) ==
    /\ CurrentCalibrationMode' = calibrationMode
    /\ calls' = calls + 1
    /\ obs' = NoObs("SetCalibrationMode")
    /\ UNCHANGED <<GyroCalibration, Gyro, RawAccel, Motion, AutoCalibration,
                   IsCalibrating, pushed, ticks, recalibrations,
                   steady, gravity>>

\* GamepadMotion::ResetMotion
ResetMotion ==
    /\ Motion' = MotionReset(Motion)
    /\ calls' = calls + 1
    /\ obs' = NoObs("ResetMotion")
    /\ gravity' = << >>
    /\ UNCHANGED <<GyroCalibration, Gyro, RawAccel, AutoCalibration,
                   CurrentCalibrationMode, IsCalibrating, pushed, ticks, recalibrations,
                   steady>>

\* what a call of AddSample leaves, c = [A, cal, calibrated, fires]
AddSampleResult(inGyro, inAccel, deltaTime, c) ==
    /\ AutoCalibration' = c.A
    /\ GyroCalibration' = c.cal
    /\ calls' = calls + 1
    /\ obs' = [NoObs("AddSample") EXCEPT !.gyro = inGyro, !.accel = inAccel,
                   !.dt = deltaTime, !.calibrated = c.calibrated, !.fires = c.fires,
                   !.before = GyroCalibration,
                   !.threshold = AutoCalibration.RecalibrateThreshold]
    /\ pushed' = IF c.calibrated THEN [pushed EXCEPT !.valid = FALSE] ELSE pushed
    /\ ticks' = ticks + 1
    /\ recalibrations' = recalibrations + (IF c.calibrated THEN 1 ELSE 0)
    /\ UNCHANGED <<Gyro, RawAccel, Motion, CurrentCalibrationMode, IsCalibrating,
                   steady, gravity>>

\* AutoCalibration::AddSample, called on the facade's calibrator
AddSample(inGyro, inAccel, deltaTime) ==
    AddSampleResult(inGyro, inAccel, deltaTime,
                    AutoAddSample(AutoCalibration, GyroCalibration, inGyro, inAccel,
                                  deltaTime))

----------------------------------------------------------------------------
(* the facade under every call: Spec *)

\* the gyro unit of the facade runs, 2^-8 deg/s
U == <<1, -8>>
\* 1.00000072 (0x1.00000cp+0) * 2^-8
Odd24 == <<4194307, -30>>

MaxCalls == 5

GyroInputs == {Vec(U, FMul(U, <<3, 0>>), Zero), Vec(Zero, U, FNeg(U))}
AccelInputs == {Vec(Zero, One, Zero)}
DeltaTimes == {<<1, -2>>}
\* the arguments of SetCalibrationOffset: [offset, weight]
OffsetInputs ==
    {[offset |-> Vec(Odd24, U, FNeg(Odd24)), weight |-> 10],
     [offset |-> Vec(U, Zero, FNeg(U)), weight |-> 4],
     [offset |-> Vec(Odd24, U, FNeg(Odd24)), weight |-> 1],
     [offset |-> Vec(U, Zero, FNeg(U)), weight |-> 0],
     [offset |-> Vec(U, Zero, FNeg(U)), weight |-> -1]}

Next ==
    \/ calls < MaxCalls /\ Reset
    \/ /\ calls < MaxCalls
       /\ \E g \in GyroInputs, a \in AccelInputs, dt \in DeltaTimes :
             ProcessMotion(g, a, dt)
    \/ calls < MaxCalls /\ StartContinuousCalibration
    \/ calls < MaxCalls /\ PauseContinuousCalibration
    \/ calls < MaxCalls /\ ResetContinuousCalibration
    \/ /\ calls < MaxCalls
       /\ \E i \in OffsetInputs : SetCalibrationOffset(i.offset, i.weight)
    \/ calls < MaxCalls /\ \E m \in {"Basic", "Auto"} : SetCalibrationMode(m)
    \/ calls < MaxCalls /\ ResetMotion

Spec == Init /\ [][Next]_vars

----------------------------------------------------------------------------
(* the calibrator alone under varying samples: SpecAuto *)

MaxAutoCalls == 11

Four == <<1, 2>>
\* the arguments of AutoCalibration::AddSample: a quiet pair of samples one
\* unit apart, a sample that moves gyro Y only, a long tick, and a tick of
\* no duration
AutoInputs ==
    {[gyro |-> VecZero, accel |-> VecZero, dt |-> <<1, -2>>],
     [gyro |-> Vec(One, One, One), accel |-> Vec(One, One, One), dt |-> <<1, -2>>],
     [gyro |-> Vec(One, Four, One), accel |-> Vec(One, One, One), dt |-> <<1, -2>>],
     [gyro |-> Vec(One, One, One), accel |-> Vec(One, One, One), dt |-> One],
     [gyro |-> VecZero, accel |-> VecZero, dt |-> Zero]}

AutoNext ==
    /\ calls < MaxAutoCalls
    /\ \E i \in AutoInputs : AddSample(i.gyro, i.accel, i.dt)

SpecAuto == Init /\ [][AutoNext]_vars

----------------------------------------------------------------------------
(* a fresh instance fed the same sample on every tick: SpecSteady *)

MaxSteadySeconds == 2

\* 0.5 deg/s
HalfDegree == Half
\* the constant inputs of a run: [gyro, accel, hz], deltaTime = 1 / hz
SteadyRuns ==
    {[gyro |-> Vec(g, g, g), accel |-> a, hz |-> hz] :
        g \in {Zero, U, HalfDegree},
        a \in {Vec(Zero, FNeg(One), Zero), Vec(Zero, One, Zero)},
        hz \in {60, 64}}

SteadyDeltaTime == FDiv(One, FFromInt(steady.hz))

SteadyInit ==
    /\ Fresh
    /\ obs = NoObs("GamepadMotion")
    /\ pushed = NoSamples
    /\ ticks = 0
    /\ calls = 0
    /\ recalibrations = 0
    /\ steady \in SteadyRuns
    /\ gravity = << >>

\* the run may switch to Auto before its first tick; every tick repeats the
\* run's sample
SteadyNext ==
    \/ calls = 0 /\ SetCalibrationMode("Auto")
    \/ /\ ticks < MaxSteadySeconds * steady.hz
       /\ ProcessMotion(steady.gyro, steady.accel, SteadyDeltaTime)

SpecSteady == SteadyInit /\ [][SteadyNext]_vars

----------------------------------------------------------------------------
(* properties of the facade, checked under Spec *)

Two == <<1, 1>>

\* a and b differ by at most one unit in the last place of b
WithinOneUlp(a, b) ==
    IF b = Zero THEN a = Zero
    ELSE FLe(FAbs(FSub(a, b)), <<1, Norm(b)[2]>>)

VecWithinOneUlp(a, b) ==
    /\ WithinOneUlp(a.x, b.x)
    /\ WithinOneUlp(a.y, b.y)
    /\ WithinOneUlp(a.z, b.z)

IsPowerOfTwo(n) == n >= 1 /\ 2^(BitLen(n) - 1) = n

\* the last call was SetCalibrationOffset with a weight >= 1
Seeded == obs.op = "SetCalibrationOffset" /\ obs.weight >= 1

\* C1 as stated: SetCalibrationOffset(x, y, z, weight) with weight >= 1,
\* followed immediately by GetCalibrationOffset, returns exactly (x, y, z).
C1_RoundTripExact ==
    Seeded => GetCalibrationOffset(GyroCalibration) = obs.gyro

\* C1, amended: SetCalibrationOffset(x, y, z, weight) with weight >= 1,
\* followed immediately by GetCalibrationOffset, returns (x, y, z) to within
\* one unit in the last place of each component, whatever the accumulator
\* held before, and returns it exactly when weight is a power of two.
C1_RoundTripWithinOneUlp ==
    Seeded =>
        LET got == GetCalibrationOffset(GyroCalibration)
        IN  /\ VecWithinOneUlp(got, obs.gyro)
            /\ IsPowerOfTwo(obs.weight) => got = obs.gyro

\* a seed of weight 10 over a used accumulator that does not read back exactly
C1_Witness ==
    /\ Seeded
    /\ obs.weight = 10
    /\ calls >= 3
    /\ GetCalibrationOffset(GyroCalibration) # obs.gyro

\* C2: GetCalibrationOffset returns (0, 0, 0) in every state whose
\* accumulator sample count is <= 0: after ResetContinuousCalibration, on a
\* fresh instance and after SetCalibrationOffset with a weight <= 0; the
\* reciprocal of the count is taken only for a positive count.
C2_ZeroOffsetWithoutSamples ==
    /\ GyroCalibration.NumSamples <= 0
          => GetCalibratedSensor(GyroCalibration) = [offset |-> VecZero, accelMagnitude |-> Zero]
    /\ obs.op \in {"GamepadMotion", "ResetContinuousCalibration"}
          => GetCalibrationOffset(GyroCalibration) = VecZero
    /\ (obs.op = "SetCalibrationOffset" /\ obs.weight <= 0)
          => GetCalibrationOffset(GyroCalibration) = VecZero

\* a seed of negative weight: the sums are not zero and the count is negative
C2_Witness ==
    /\ obs.op = "SetCalibrationOffset"
    /\ obs.weight < 0
    /\ GyroCalibration.NumSamples < 0
    /\ GyroCalibration.X # Zero

RECURSIVE SumSamples(_)
\* the per-axis sum of a sequence of gyro samples, in float, oldest first
SumSamples(samples) ==
    IF samples = << >> THEN VecZero
    ELSE VecAdd(SumSamples(SubSeq(samples, 1, Len(samples) - 1)),
                samples[Len(samples)])

\* the per-axis quotient sum / n of the samples, rounded once
MeanOfSamples(samples) ==
    LET sum == SumSamples(samples)
        n == FFromInt(Len(samples))
    IN  Vec(FDiv(sum.x, n), FDiv(sum.y, n), FDiv(sum.z, n))

\* since the accumulator was last zeroed it has received n >= 1 ticks and
\* nothing else: GetCalibrationOffset is the mean of those n raw samples (as
\* float computes it: within one unit in the last place of sum / n)
OffsetIsMeanOfPushed ==
    (pushed.valid /\ Len(pushed.samples) >= 1) =>
        /\ GyroCalibration.NumSamples = Len(pushed.samples)
        /\ VecWithinOneUlp(GetCalibrationOffset(GyroCalibration),
                           MeanOfSamples(pushed.samples))

\* C3: in Basic mode a ProcessMotion tick changes the accumulator if and only
\* if accumulation is active: when active it adds the tick's raw gyro per
\* axis and the accelerometer magnitude to the sums and one to the count;
\* otherwise the accumulator is unchanged.  Hence after the accumulator is
\* zeroed and n >= 1 active ticks follow, GetCalibrationOffset is the mean of
\* those n raw samples.
C3_BasicTickAccumulatesIffActive ==
    /\ (obs.op = "ProcessMotion" /\ CurrentCalibrationMode = "Basic") =>
          IF IsCalibrating
          THEN /\ GyroCalibration.X = FAdd(obs.before.X, obs.gyro.x)
               /\ GyroCalibration.Y = FAdd(obs.before.Y, obs.gyro.y)
               /\ GyroCalibration.Z = FAdd(obs.before.Z, obs.gyro.z)
               /\ GyroCalibration.AccelMagnitude =
                     FAdd(obs.before.AccelMagnitude, VecLength(obs.accel))
               /\ GyroCalibration.NumSamples = obs.before.NumSamples + 1
          ELSE GyroCalibration = obs.before
    /\ OffsetIsMeanOfPushed

\* three active ticks after a zeroing, whose mean is not a float quotient of
\* a power of two
C3_Witness ==
    /\ obs.op = "ProcessMotion"
    /\ CurrentCalibrationMode = "Basic"
    /\ IsCalibrating
    /\ pushed.valid
    /\ Len(pushed.samples) = 3
    /\ GyroCalibration.NumSamples = 3
    /\ GetCalibrationOffset(GyroCalibration) # VecZero

\* C5 as stated: ResetContinuousCalibration zeroes the accumulator's sums and
\* sample count and returns the manual calibration state machine to Idle, so
\* that accumulation is not active after it.
C5_ResetReturnsToIdle ==
    obs.op = "ResetContinuousCalibration" =>
        /\ GyroCalibration = GyroCalibrationZero
        /\ ~IsCalibrating

\* C6 as stated: after Reset() the complete state equals that of a freshly
\* constructed instance.
C6_ResetRestoresFreshState ==
    obs.op = "Reset" => Fresh

----------------------------------------------------------------------------
(* properties of constant-input runs, checked under SpecSteady *)

\* the run has been in Auto mode for at least 2 s of ticks
TwoSecondsOfAuto == CurrentCalibrationMode = "Auto" /\ ticks >= 2 * steady.hz

\* C4 as stated: in Auto mode a constant gyro value and a constant
\* accelerometer reading fed at a steady rate for at least 2 s make
\* AddSample return true at least once, and GetCalibrationOffset then equals
\* the gyro value.
C4_ConstantInputRecalibrates ==
    TwoSecondsOfAuto =>
        /\ recalibrations >= 1
        /\ GetCalibrationOffset(GyroCalibration) = steady.gyro

\* 60 ticks of gyro (0,0,0), accel (0,-1,0), dt 1/60 on a fresh instance
RestingScenario ==
    /\ steady.gyro = VecZero
    /\ steady.accel = Vec(Zero, FNeg(One), Zero)
    /\ steady.hz = 60
    /\ ticks = 60

\* the gravityLength ProcessMotion hands to Motion::Update
GravityLength == GetCalibratedSensor(GyroCalibration).accelMagnitude

\* C7 as stated: the scenario ends with the gravity estimate equal to
\* (0, -gravityLength, 0) and the linear acceleration equal to (0, 0, 0).
C7_RestingLinearAccelerationIsZero ==
    RestingScenario =>
        /\ Motion.Grav = Vec(Zero, FNeg(GravityLength), Zero)
        /\ Motion.Accel = VecZero

\* C7, amended: the scenario ends with the gravity estimate equal to
\* (0, -gravityLength, 0), where gravityLength is the calibrated accelerometer
\* magnitude, 0 on an instance that has no calibration, and with the linear
\* acceleration equal to accel + gravity = (0, -1, 0).
C7_RestingLinearAccelerationIsAccelPlusGravity ==
    RestingScenario =>
        /\ GravityLength = Zero
        /\ Motion.Grav = Vec(Zero, FNeg(GravityLength), Zero)
        /\ Motion.Accel = VecAdd(steady.accel, Motion.Grav)
        /\ Motion.Accel = Vec(Zero, FNeg(One), Zero)
        /\ Motion.Quaternion = QuatIdentity

\* the end of the scenario, the ring full of the same sample
C7_Witness ==
    /\ RestingScenario
    /\ obs.op = "ProcessMotion"
    /\ Motion.NumGravDirectionSamplesCounted = 60
    /\ Motion.Accel = Vec(Zero, FNeg(One), Zero)

----------------------------------------------------------------------------
(* properties of the calibrator, checked under SpecAuto *)

\* a span is below its floor times the threshold
SpanBelow(span, floor, threshold) == FLt(span, FMul(floor, threshold))

\* C8 as stated: a recalibration fires for a mature window only if each of
\* its six spans is below its own axis's floor times RecalibrateThreshold.
C8_FireOnlyBelowOwnFloors ==
    \A i \in 1..Len(obs.fires) :
        LET f == obs.fires[i]
        IN  /\ SpanBelow(f.gyroDelta.x, f.MinDeltaGyro.x, f.RecalibrateThreshold)
            /\ SpanBelow(f.gyroDelta.y, f.MinDeltaGyro.y, f.RecalibrateThreshold)
            /\ SpanBelow(f.gyroDelta.z, f.MinDeltaGyro.z, f.RecalibrateThreshold)
            /\ SpanBelow(f.accelDelta.x, f.MinDeltaAccel.x, f.RecalibrateThreshold)
            /\ SpanBelow(f.accelDelta.y, f.MinDeltaAccel.y, f.RecalibrateThreshold)
            /\ SpanBelow(f.accelDelta.z, f.MinDeltaAccel.z, f.RecalibrateThreshold)

\* the per-axis midpoint (min + max) / 2 of a window's gyro range
GyroMidpoint(W) ==
    Vec(FDiv(FAdd(W.MinGyro.x, W.MaxGyro.x), Two),
        FDiv(FAdd(W.MinGyro.y, W.MaxGyro.y), Two),
        FDiv(FAdd(W.MinGyro.z, W.MaxGyro.z), Two))

\* C9: AddSample writes the accumulator exactly when it returns true: on a
\* firing tick the sample count becomes 1 and X, Y, Z become the midpoint of
\* the firing window's gyro range, replacing what was stored, so that
\* GetCalibrationOffset returns that midpoint; on a tick that returns false
\* the accumulator is unchanged.
C9_WriteExactlyWhenTrue ==
    obs.op = "AddSample" =>
        /\ obs.calibrated <=> Len(obs.fires) >= 1
        /\ IF obs.calibrated
           THEN LET mid == GyroMidpoint(obs.fires[Len(obs.fires)].window)
                IN  /\ GyroCalibration.NumSamples = 1
                    /\ Vec(GyroCalibration.X, GyroCalibration.Y, GyroCalibration.Z) = mid
                    /\ GetCalibrationOffset(GyroCalibration) = mid
           ELSE GyroCalibration = obs.before

\* a firing tick that replaces an earlier estimate by a different one
C9_Witness ==
    /\ obs.op = "AddSample"
    /\ obs.calibrated
    /\ obs.before.NumSamples = 1
    /\ obs.before.Y # GyroCalibration.Y
    /\ GyroCalibration.Y = Two

\* C10: after every AddSample call RecalibrateThreshold lies in [1.0, 1.5];
\* it starts at 1.0, and within one call it decreases only when a fire
\* condition was met in that call, by at most 0.25 per firing window and
\* never below 1.0.
C10_ThresholdRange ==
    /\ obs.op = "GamepadMotion" => AutoCalibration.RecalibrateThreshold = One
    /\ FGe(AutoCalibration.RecalibrateThreshold, One)
    /\ FLe(AutoCalibration.RecalibrateThreshold, MaxRecalibrateThreshold)
    /\ (obs.op = "AddSample"
        /\ FLt(AutoCalibration.RecalibrateThreshold, obs.threshold)) =>
          /\ Len(obs.fires) >= 1
          /\ FLe(FSub(obs.threshold, AutoCalibration.RecalibrateThreshold),
                 FMul(RecalibrateDrop, FFromInt(Len(obs.fires))))

\* a call in which both windows fire: the threshold falls from its cap by
\* two drops
C10_Witness ==
    /\ obs.op = "AddSample"
    /\ Len(obs.fires) = 2
    /\ obs.threshold = MaxRecalibrateThreshold
    /\ AutoCalibration.RecalibrateThreshold = One

----------------------------------------------------------------------------
(* the calibrator alone under a steady tick cadence: SpecCadence *)

MaxCadenceCalls == 66

\* the tick rates of a run, deltaTime = 1 / hz
CadenceRates == {4, 60, 64}
\* the samples of a run: at rest, or moved on gyro Y
CadenceSamples ==
    {[gyro |-> VecZero, accel |-> VecZero],
     [gyro |-> Vec(One, Four, One), accel |-> Vec(One, One, One)]}

CadenceInit ==
    /\ Fresh
    /\ obs = NoObs("GamepadMotion")
    /\ pushed = NoSamples
    /\ ticks = 0
    /\ calls = 0
    /\ recalibrations = 0
    /\ steady \in {[gyro |-> VecZero, accel |-> VecZero, hz |-> hz] : hz \in CadenceRates}
    /\ gravity = << >>

\* every call of AddSample of a run has the run's deltaTime
CadenceNext ==
    /\ calls < MaxCadenceCalls
    /\ \E i \in CadenceSamples : AddSample(i.gyro, i.accel, SteadyDeltaTime)

SpecCadence == CadenceInit /\ [][CadenceNext]_vars

\* half the averaging period
HalfPeriod == FDiv(MinAutoWindowTime, FFromInt(NumWindows))

\* how far apart the elapsed times of the two windows are
WindowStagger ==
    FAbs(FSub(AutoCalibration.MinMaxWindows[0].TimeSampled,
              AutoCalibration.MinMaxWindows[1].TimeSampled))

\* C11: under a steady tick cadence, from construction onward and after
\* every AddSample call, the elapsed times of the two windows differ by
\* exactly half the averaging period.
C11_WindowsHalfPeriodApart == WindowStagger = HalfPeriod

----------------------------------------------------------------------------
(* Motion::Update under varying accelerometer samples: SpecRing *)

MaxRingTicks == 11

\* the accelerometer samples of a run; the gyro is at rest
RingAccels == {Vec(Zero, One, Zero), Vec(One, One, One)}
RingDeltaTime == <<1, -2>>

\* no tick of the run so far went without a sample and Motion was not reset
Uninterrupted == calls = ticks /\ Motion.NumGravDirectionSamplesCounted = ticks

\* a run is interrupted at most once: by ResetMotion, or by a tick whose
\* accelerometer reads (0, 0, 0)
RingNext ==
    \/ /\ ticks < MaxRingTicks
       /\ \E a \in RingAccels : ProcessMotion(VecZero, a, RingDeltaTime)
    \/ /\ ticks < MaxRingTicks
       /\ Uninterrupted
       /\ ProcessMotion(VecZero, VecZero, RingDeltaTime)
    \/ /\ ticks < MaxRingTicks
       /\ Uninterrupted
       /\ ResetMotion

SpecRing == Init /\ [][RingNext]_vars

RECURSIVE LeastOf(_, _, _)
\* the least of h[1][axis] .. h[k][axis], k >= 1
LeastOf(h, k, axis) ==
    IF k = 1 THEN h[1][axis]
    ELSE IF FLt(h[k][axis], LeastOf(h, k - 1, axis)) THEN h[k][axis]
         ELSE LeastOf(h, k - 1, axis)

RECURSIVE GreatestOf(_, _, _)
GreatestOf(h, k, axis) ==
    IF k = 1 THEN h[1][axis]
    ELSE IF FGt(h[k][axis], GreatestOf(h, k - 1, axis)) THEN h[k][axis]
         ELSE GreatestOf(h, k - 1, axis)

\* the tick just made stored a sample
SampleStored == obs.op = "ProcessMotion" /\ FGt(VecLength(obs.accel), Zero)

\* min(n, 10) for the n samples stored since the last reset of Motion
NumGravSamples ==
    IF Motion.NumGravDirectionSamplesCounted < NumGravDirectionSamples
    THEN Motion.NumGravDirectionSamplesCounted
    ELSE NumGravDirectionSamples

\* the bounding box the steadiness test of the tick just made has read
LastGravityBox ==
    GravityBox(Motion.GravDirectionSamples, Motion.LastGravityIdx, 1, NumGravSamples,
               Motion.GravDirectionSamples[Motion.LastGravityIdx],
               Motion.GravDirectionSamples[Motion.LastGravityIdx])

\* the ring holds the last min(n, 10) samples, the newest at the cursor and
\* each older one a slot further: the slot written was the oldest one
RingHoldsNewest ==
    /\ Motion.LastGravityIdx \in 0..(NumGravDirectionSamples - 1)
    /\ Len(gravity) = NumGravSamples
    /\ \A i \in 1..NumGravSamples :
          Motion.GravDirectionSamples[(Motion.LastGravityIdx + i - 1)
                                          % NumGravDirectionSamples] = gravity[i]

\* C12: on every tick with a non-zero accelerometer magnitude the new sample
\* overwrites the oldest ring slot (cursor in 0..9), and on each axis the
\* bounding box of the steadiness test has the true minimum and maximum of
\* the last min(n, 10) samples stored since the last reset of Motion.
C12_BoxIsTrueMinMax ==
    SampleStored =>
        /\ RingHoldsNewest
        /\ \A axis \in {"x", "y", "z"} :
              /\ LastGravityBox.min[axis] = LeastOf(gravity, NumGravSamples, axis)
              /\ LastGravityBox.max[axis] = GreatestOf(gravity, NumGravSamples, axis)
====
